---- MODULE Spec2Model ----
(***************************************************************************)
(* Metropolis Monte Carlo simulation of the 2D Ising model                 *)
(* (Ising-Monte-Carlo/ising notebook).                                     *)
(*                                                                         *)
(* Arithmetic is exact.  A spin is an integer (the notebook's floats       *)
(* -1.0, 0.0, 1.0).  An energy is an integer in units of 1/HDen, so that   *)
(* H = 0.01 is the integer 1 and J/2 = 0.5 is the integer 50.  A ratio is  *)
(* a pair <<numerator, denominator>>.                                      *)
(***************************************************************************)
EXTENDS Integers, Sequences, FiniteSets, TLC

VARIABLES
    n_glob,      \* the notebook's global n (driver cell), read by calc_energy
    H,           \* the notebook's global H, in units of 1/HDen
    grid,        \* the lattice: grid[i][j] for 0 <= i, j < len(grid)
    pc,          \* position in the code under execution
    n,           \* mc_metropolis argument: lattice side
    mc_changes,  \* mc_metropolis / mc_step argument: elementary steps per sweep
    n_steps_eq,  \* mc_metropolis argument
    nsteps_mc,   \* mc_metropolis argument
    T,           \* mc_metropolis argument, a ratio; <<1, 0>> is float('inf')
    inv_T,       \* mc_metropolis local / mc_step argument, a ratio
    t,           \* loop counter of the mc_metropolis loop under execution
    acc,         \* the six accumulators E_avg .. chi_avg2
    sweeps,      \* number of mc_step calls made so far
    samples,     \* number of measurements (E, mu, chi) taken so far
    last,        \* what the last mc_metropolis statement did: "", "sweep", "measure"
    outcome,     \* how the call ended: "" while running, "returned", or the exception
    result,      \* the six statistics mc_metropolis returned
    it,          \* loop counter of mc_step
    step,        \* the last elementary step of mc_step: what it drew and decided
    probe        \* the last evaluation of the energy functions on a chosen site

vars == <<n_glob, H, grid, pc, n, mc_changes, n_steps_eq, nsteps_mc, T, inv_T, t,
          acc, sweeps, samples, last, outcome, result, it, step, probe>>

(***************************************************************************)
(* Program constants                                                       *)
(***************************************************************************)
HDen == 100

HNum == 1

J == 1

neigh == << <<-1, 0, 1, 0>>,
            <<0, -1, 0, 1>> >>

(***************************************************************************)
(* Bounds of the model                                                     *)
(***************************************************************************)
\* the lattice sides on which the energy functions are evaluated
EnergySides == 1 .. 3

\* the lattice sides on which single calls of mc_step are explored
StepSides == 1 .. 2

\* the lattice sides n of whole mc_metropolis runs
RunSides == 0 .. 2

\* the values of the global n during whole mc_metropolis runs
GlobalSides == 1 .. 2

\* largest mc_changes of a whole mc_metropolis run
MaxChanges == 1

\* largest mc_changes of a single call of mc_step
MaxTrials == 2

\* largest n_steps_eq
MaxEq == 1

\* largest nsteps_mc
MaxMc == 2

\* random.random() returns one of 0/UDen .. (UDen-1)/UDen in the acceptance test
UDen == 2

\* the spins init can draw: 2 * random.random() - 1 for random.random() in {0, 1/2}
InitSpins == {-1, 0}

\* the spins a lattice cell can hold: the drawn ones and their negations
Spins == InitSpins \cup {-s : s \in InitSpins}

\* the values of the global H: the notebook's 0.01, and the zero field
HVals == {0, HNum}

\* the temperatures: 2 and float('inf')
TVals == {<<2, 1>>, <<1, 0>>}

\* the lattice values on which the energy functions are evaluated
EnergySpins == Spins \ {0}

(***************************************************************************)
(* Helpers                                                                 *)
(***************************************************************************)
\* f[lo] + f[lo + 1] + ... + f[hi], added in that order
RECURSIVE SumOver(_, _, _)
SumOver(f, lo, hi) ==
    IF lo > hi THEN 0 ELSE f[lo] + SumOver(f, lo + 1, hi)

len(g) == Cardinality(DOMAIN g)

Sites(N) == (0 .. N - 1) \X (0 .. N - 1)

Lattices(N, vals) == [0 .. N - 1 -> [0 .. N - 1 -> vals]]

(***************************************************************************)
(* init(n): every cell an independent draw                                 *)
(***************************************************************************)
init(side) == Lattices(side, InitSpins)

(***************************************************************************)
(* calc_energy(grid).  The neighbour of (i, j) in direction k is taken     *)
(* modulo the global n, not modulo len(grid).                              *)
(***************************************************************************)
EnergyNeighbour(i, j, k) ==
    <<(neigh[1][k] + i) % n_glob, (neigh[2][k] + j) % n_glob>>

\* grid[x][y] raises IndexError when x or y is not an index of the array
\* (x and y are never negative here: Python's % takes the sign of the divisor)
InRange(g, c) == c[1] \in DOMAIN g /\ c[2] \in DOMAIN g

EnergyIndexError(g) ==
    \E s \in Sites(len(g)), k \in 1 .. 4 : ~InRange(g, EnergyNeighbour(s[1], s[2], k))

\* the two updates of E made for cell (i, j): E -= H * grid[i][j], then for
\* each k, E -= J / 2 * grid[i][j] * grid[x][y]
CellEnergy(g, i, j) ==
    LET nb == [k \in 1 .. 4 |->
                 LET c == EnergyNeighbour(i, j, k)
                 IN  ((J * HDen) \div 2) * g[i][j] * g[c[1]][c[2]]]
    IN  0 - H * g[i][j] - SumOver(nb, 1, 4)

calc_energy(g) ==
    IF EnergyIndexError(g)
    THEN [err |-> "IndexError", E |-> 0]
    ELSE [err |-> "",
          E   |-> LET row == [i \in DOMAIN g |->
                                   SumOver([j \in DOMAIN g |-> CellEnergy(g, i, j)],
                                           0, len(g) - 1)]
                  IN  SumOver(row, 0, len(g) - 1)]

(***************************************************************************)
(* calc_magnetization(grid)                                                *)
(***************************************************************************)
calc_magnetization(g) ==
    LET row == [i \in DOMAIN g |-> SumOver(g[i], 0, len(g) - 1)]
    IN  SumOver(row, 0, len(g) - 1)

(***************************************************************************)
(* mc_step: the neighbours and the energy change of one proposed flip.     *)
(* Here n is the local n = len(grid).                                      *)
(***************************************************************************)
StepNeighbour(g, i, j, k) ==
    <<(neigh[1][k] + i) % len(g), (neigh[2][k] + j) % len(g)>>

deltaS_ij(g, i, j) == 0 - g[i][j] * 2

delta_E(g, i, j) ==
    LET nb == [k \in 1 .. 4 |->
                 LET c == StepNeighbour(g, i, j, k)
                 IN  0 - J * HDen * deltaS_ij(g, i, j) * g[c[1]][c[2]]]
    IN  0 - H * deltaS_ij(g, i, j) + SumOver(nb, 1, 4)

\* a faulty flip: the whole row i is negated (grid[i] *= -1)
FlipRow(g, i, j) == [g EXCEPT ![i] = [b \in DOMAIN g[i] |-> 0 - g[i][b]]]

\* a faulty flip: the spin is doubled as it is negated (grid[i][j] *= -2)
FlipDouble(g, i, j) == [g EXCEPT ![i][j] = g[i][j] * (0 - 2)]

\* grid[i][j] *= -1
Flip(g, i, j) == [g EXCEPT ![i][j] = g[i][j] * (0 - 1)]

(***************************************************************************)
(* mc_step: the acceptance test of one elementary step                     *)
(***************************************************************************)
\* 1 / T
Inverse(temp) == <<temp[2], temp[1]>>

\* a faulty argument of np.exp: delta_E * inv_T, the sign lost
ExpArgPlus(dE, invT) == <<dE * invT[1], HDen * invT[2]>>

\* the argument of np.exp: -delta_E * inv_T, delta_E being in units of 1/HDen
ExpArg(dE, invT) == <<(0 - dE) * invT[1], HDen * invT[2]>>

\* np.exp(x) for a ratio x = p/q with q > 0, as the ratio of the second-order
\* approximant: 1 + x + x^2/2 for x >= 0 and its reciprocal at -x for x < 0.
\* It is 1 at 0, above 1 for x > 0, in (0, 1) for x < 0, and increasing.
exp(x) ==
    LET p   == x[1]
        q   == x[2]
        a   == IF p < 0 THEN 0 - p ELSE p
        big == 2 * q * q + 2 * a * q + a * a
    IN  IF p < 0 THEN <<2 * q * q, big>> ELSE <<big, 2 * q * q>>

\* u / UDen < r for a ratio r with a positive denominator
Less(u, r) == u * r[2] < UDen * r[1]

\* a faulty line 225: the branch is never taken, every move goes to the
\* acceptance test of line 228
AcceptsNever(dE) == FALSE

\* line 225: if delta_E < 0
AcceptsOutright(dE) == dE < 0

NoStep == [done |-> FALSE]

NoProbe == [done |-> FALSE]

\* one pass of the loop body of mc_step on lattice g: cell is the value of
\* int(random.random() * n**2), u / UDen the value random.random() returns if
\* the acceptance test draws it.  drew: line 228 called random.random();
\* evaluated: line 228 called np.exp, on exp_arg
Trial(g, cell, u, invT) ==
    LET i  == cell \div len(g)
        j  == cell % len(g)
        dE == delta_E(g, i, j)
    IN  IF AcceptsOutright(dE)
        THEN [done |-> TRUE, i |-> i, j |-> j, delta_E |-> dE,
              drew |-> FALSE, u |-> 0,
              evaluated |-> FALSE, exp_arg |-> <<0, 1>>,
              accepted |-> TRUE,
              grid |-> Flip(g, i, j)]
        ELSE LET ok == Less(u, exp(ExpArg(dE, invT)))
             IN  [done |-> TRUE, i |-> i, j |-> j, delta_E |-> dE,
                  drew |-> TRUE, u |-> u,
                  evaluated |-> TRUE, exp_arg |-> ExpArg(dE, invT),
                  accepted |-> ok,
                  grid |-> IF ok THEN Flip(g, i, j) ELSE g]

Cells(g) == 0 .. len(g) * len(g) - 1

Draws == 0 .. UDen - 1

(***************************************************************************)
(* One call mc_step(grid, mc_changes, inv_T), one elementary step at a time *)
(***************************************************************************)
InitStep ==
    /\ n_glob = 1
    /\ H = HNum
    /\ \E N \in StepSides : grid \in init(N)
    /\ mc_changes \in 1 .. MaxTrials
    /\ inv_T \in {Inverse(temp) : temp \in TVals}
    /\ pc = "mc_step"
    /\ it = 0
    /\ step = NoStep
    /\ probe = NoProbe
    /\ n = 0 /\ n_steps_eq = 0 /\ nsteps_mc = 0 /\ T = <<1, 1>> /\ t = 0
    /\ acc = <<>> /\ sweeps = 0 /\ samples = 0 /\ last = "" /\ outcome = ""
    /\ result = <<>>

ElementaryStep(cell, u) ==
    /\ pc = "mc_step"
    /\ it < mc_changes
    /\ cell \in Cells(grid)
    /\ LET tr == Trial(grid, cell, u, inv_T)
       IN  /\ step' = [x \in DOMAIN tr \ {"grid"} |-> tr[x]]
           /\ grid' = tr.grid
    /\ it' = it + 1
    /\ UNCHANGED <<n_glob, H, pc, n, mc_changes, n_steps_eq, nsteps_mc, T, inv_T, t,
                   acc, sweeps, samples, last, outcome, result, probe>>

StepReturn ==
    /\ pc = "mc_step"
    /\ it = mc_changes
    /\ pc' = "mc_step_done"
    /\ UNCHANGED <<n_glob, H, grid, n, mc_changes, n_steps_eq, nsteps_mc, T, inv_T, t,
                   acc, sweeps, samples, last, outcome, result, it, step, probe>>

NextStep ==
    \/ \E cell \in Cells(grid), u \in Draws :
           ElementaryStep(cell, u)
    \/ StepReturn

SpecStep == InitStep /\ [][NextStep]_vars

(***************************************************************************)
(* Evaluation of the energy functions on one lattice and one site          *)
(***************************************************************************)
Idle ==
    /\ n = 0 /\ mc_changes = 0 /\ n_steps_eq = 0 /\ nsteps_mc = 0
    /\ T = <<1, 1>> /\ inv_T = <<1, 1>> /\ t = 0
    /\ acc = <<>> /\ sweeps = 0 /\ samples = 0 /\ last = "" /\ outcome = ""
    /\ result = <<>>

InitEnergy ==
    /\ n_glob \in EnergySides
    /\ H = HNum
    /\ \E N \in EnergySides : grid \in Lattices(N, EnergySpins)
    /\ pc = "energy"
    /\ probe = NoProbe
    /\ it = 0 /\ step = NoStep
    /\ Idle

\* full-lattice energy before and after negating the spin at (i, j), and the
\* delta_E mc_step computes for that flip
ProbeFlip(i, j) ==
    /\ pc = "energy"
    /\ ~probe.done
    /\ <<i, j>> \in Sites(len(grid))
    /\ probe' = [done      |-> TRUE,
                 i         |-> i,
                 j         |-> j,
                 before    |-> calc_energy(grid),
                 after     |-> calc_energy(Flip(grid, i, j)),
                 delta     |-> delta_E(grid, i, j),
                 energy_nb |-> [k \in 1 .. 4 |-> EnergyNeighbour(i, j, k)],
                 step_nb   |-> [k \in 1 .. 4 |-> StepNeighbour(grid, i, j, k)]]
    /\ grid' = Flip(grid, i, j)
    /\ UNCHANGED <<n_glob, H, pc, n, mc_changes, n_steps_eq, nsteps_mc, T, inv_T, t,
                   acc, sweeps, samples, last, outcome, result, it, step>>

NextEnergy == \E i, j \in 0 .. len(grid) - 1 : ProbeFlip(i, j)

SpecEnergy == InitEnergy /\ [][NextEnergy]_vars

(***************************************************************************)
(* mc_step(grid, mc_changes, inv_T) as one call: the lattices it can leave *)
(* behind, or the exception it raises.  On an empty lattice the first pass *)
(* raises ZeroDivisionError at i = int(cell / n).                          *)
(***************************************************************************)
RECURSIVE AfterTrials(_, _, _)
AfterTrials(g, k, invT) ==
    IF k = 0 THEN {g}
    ELSE UNION { {Trial(g2, cell, u, invT).grid : cell \in Cells(g2), u \in Draws} :
                 g2 \in AfterTrials(g, k - 1, invT) }

mc_step(g, changes, invT) ==
    IF changes > 0 /\ len(g) = 0
    THEN {[err |-> "ZeroDivisionError", grid |-> g]}
    ELSE {[err |-> "", grid |-> g2] : g2 \in AfterTrials(g, changes, invT)}

(***************************************************************************)
(* calc_susceptibility(grid) = calc_magnetization(grid) / H.  The dividend *)
(* is a numpy float, so a zero H gives inf, -inf or nan, not an exception. *)
(* A float is [kind |-> "fin", v |-> value], or has kind "inf" with v the  *)
(* sign, or kind "nan".                                                    *)
(***************************************************************************)
Fin(v) == [kind |-> "fin", v |-> v]

Inf(sign) == [kind |-> "inf", v |-> sign]

NaN == [kind |-> "nan", v |-> 0]

\* numpy float mu divided by h / HDen (exact for the values of H modelled)
FloatDiv(mu, h) ==
    IF h # 0 THEN Fin((mu * HDen) \div h)
    ELSE IF mu > 0 THEN Inf(1)
    ELSE IF mu < 0 THEN Inf(0 - 1)
    ELSE NaN

calc_susceptibility(g) == FloatDiv(calc_magnetization(g), H)

\* a + b on floats
FloatAdd(a, b) ==
    IF a.kind = "nan" \/ b.kind = "nan" THEN NaN
    ELSE IF a.kind = "inf" /\ b.kind = "inf"
         THEN IF a.v = b.v THEN a ELSE NaN
    ELSE IF a.kind = "inf" THEN a
    ELSE IF b.kind = "inf" THEN b
    ELSE Fin(a.v + b.v)

\* a ** 2 on floats
FloatSquare(a) ==
    IF a.kind = "nan" THEN NaN
    ELSE IF a.kind = "inf" THEN Inf(1)
    ELSE Fin(a.v * a.v)

(***************************************************************************)
(* mc_metropolis(n, mc_changes, n_steps_eq, nsteps_mc, T)                   *)
(***************************************************************************)
\* lines 246-256.  E_avg stays a Python int until a numpy float is added to it.
ZeroSums ==
    [E_avg |-> 0, E_avg2 |-> 0, mu_avg |-> 0, mu_avg2 |-> 0,
     chi_avg |-> Fin(0), chi_avg2 |-> Fin(0), E_is_float |-> FALSE]

\* a faulty line 259: range(n_steps_eq)
PreSweepsEqOnly(eq, mc) == eq

\* line 259: the number of sweeps of the first loop
PreSweeps(eq, mc) == eq + mc

\* lines 272-279
Accumulate(a, E, mu, chi, side) ==
    [E_avg      |-> a.E_avg + E,
     E_avg2     |-> a.E_avg2 + E * E,
     mu_avg     |-> a.mu_avg + mu,
     mu_avg2    |-> a.mu_avg2 + mu * mu,
     chi_avg    |-> FloatAdd(a.chi_avg, chi),
     chi_avg2   |-> FloatAdd(a.chi_avg2, FloatSquare(chi)),
     E_is_float |-> a.E_is_float \/ side > 0]

\* a faulty division: numpy semantics whatever the dividend, nan instead of
\* ZeroDivisionError
TrueDivideNumpy(x, isFloat, d) ==
    IF d # 0 THEN [err |-> "", val |-> [kind |-> "fin", v |-> <<x, d>>]]
    ELSE [err |-> "", val |-> [kind |-> "nan", v |-> 0]]

\* E_avg / d of line 281: a Python int divided by the int 0 raises
\* ZeroDivisionError; a numpy float divided by 0 gives inf or nan
TrueDivide(x, isFloat, d) ==
    IF d # 0 THEN [err |-> "", val |-> [kind |-> "fin", v |-> <<x, d>>]]
    ELSE IF ~isFloat THEN [err |-> "ZeroDivisionError", val |-> NaN]
    ELSE IF x > 0 THEN [err |-> "", val |-> Inf(1)]
    ELSE IF x < 0 THEN [err |-> "", val |-> Inf(0 - 1)]
    ELSE [err |-> "", val |-> NaN]

\* a numpy float divided by d
FloatOver(a, d) ==
    IF a.kind # "fin" THEN a
    ELSE IF d # 0 THEN [kind |-> "fin", v |-> <<a.v, d>>]
    ELSE IF a.v > 0 THEN Inf(1)
    ELSE IF a.v < 0 THEN Inf(0 - 1)
    ELSE NaN

\* lines 282-289, reached only when line 281 did not raise; first is its value
Statistics(a, first, d) ==
    [E_avg    |-> first,
     E_avg2   |-> FloatOver(Fin(a.E_avg2), d),
     mu_avg   |-> FloatOver(Fin(a.mu_avg), d),
     mu_avg2  |-> FloatOver(Fin(a.mu_avg2), d),
     chi_avg  |-> FloatOver(a.chi_avg, d),
     chi_avg2 |-> FloatOver(a.chi_avg2, d)]

Init ==
    /\ n_glob \in GlobalSides
    /\ H \in HVals
    /\ n \in RunSides
    /\ mc_changes \in 0 .. MaxChanges
    /\ n_steps_eq \in 0 .. MaxEq
    /\ nsteps_mc \in 0 .. MaxMc
    /\ T \in TVals
    /\ pc = "call"
    /\ grid = <<>>
    /\ inv_T = <<0, 1>>
    /\ t = 0
    /\ acc = <<>>
    /\ sweeps = 0 /\ samples = 0 /\ last = "" /\ outcome = "" /\ result = <<>>
    /\ it = 0 /\ step = NoStep /\ probe = NoProbe

\* lines 241-256
Setup ==
    /\ pc = "call"
    /\ grid' \in init(n)
    /\ inv_T' = Inverse(T)
    /\ acc' = ZeroSums
    /\ pc' = "equilibrate"
    /\ UNCHANGED <<n_glob, H, n, mc_changes, n_steps_eq, nsteps_mc, T, t, sweeps,
                   samples, last, outcome, result, it, step, probe>>

\* one call of mc_step from either loop; next is the position after it
Sweep(next) ==
    /\ \E r \in mc_step(grid, mc_changes, inv_T) :
          IF r.err # ""
          THEN outcome' = r.err /\ pc' = "done" /\ grid' = grid
          ELSE outcome' = outcome /\ pc' = next /\ grid' = r.grid
    /\ sweeps' = sweeps + 1
    /\ last' = "sweep"

\* lines 259-260
EquilibrateSweep ==
    /\ pc = "equilibrate"
    /\ t < PreSweeps(n_steps_eq, nsteps_mc)
    /\ Sweep("equilibrate")
    /\ t' = t + 1
    /\ UNCHANGED <<n_glob, H, n, mc_changes, n_steps_eq, nsteps_mc, T, inv_T, acc,
                   samples, result, it, step, probe>>

\* the first loop is over: line 262, and the second loop starts
EquilibrateEnd ==
    /\ pc = "equilibrate"
    /\ t = PreSweeps(n_steps_eq, nsteps_mc)
    /\ pc' = "sample"
    /\ t' = 0
    /\ UNCHANGED <<n_glob, H, grid, n, mc_changes, n_steps_eq, nsteps_mc, T, inv_T,
                   acc, sweeps, samples, last, outcome, result, it, step, probe>>

\* line 266
SampleSweep ==
    /\ pc = "sample"
    /\ t < nsteps_mc
    /\ Sweep("measure")
    /\ UNCHANGED <<n_glob, H, n, mc_changes, n_steps_eq, nsteps_mc, T, inv_T, t, acc,
                   samples, result, it, step, probe>>

\* lines 268-279
Measure ==
    /\ pc = "measure"
    /\ LET E   == calc_energy(grid)
           mu  == calc_magnetization(grid)
           chi == calc_susceptibility(grid)
       IN  IF E.err # ""
           THEN /\ outcome' = E.err
                /\ pc' = "done"
                /\ UNCHANGED <<acc, samples, t, last>>
           ELSE /\ acc' = Accumulate(acc, E.E, mu, chi, len(grid))
                /\ samples' = samples + 1
                /\ t' = t + 1
                /\ last' = "measure"
                /\ pc' = "sample"
                /\ outcome' = outcome
    /\ UNCHANGED <<n_glob, H, grid, n, mc_changes, n_steps_eq, nsteps_mc, T, inv_T,
                   sweeps, result, it, step, probe>>

\* lines 281-289
Finalize ==
    /\ pc = "sample"
    /\ t = nsteps_mc
    /\ LET d     == n * n * nsteps_mc
           first == TrueDivide(acc.E_avg, acc.E_is_float, d)
       IN  IF first.err # ""
           THEN outcome' = first.err /\ result' = result
           ELSE outcome' = "returned" /\ result' = Statistics(acc, first.val, d)
    /\ pc' = "done"
    /\ UNCHANGED <<n_glob, H, grid, n, mc_changes, n_steps_eq, nsteps_mc, T, inv_T, t,
                   acc, sweeps, samples, last, it, step, probe>>

Next ==
    \/ Setup
    \/ EquilibrateSweep
    \/ EquilibrateEnd
    \/ SampleSweep
    \/ Measure
    \/ Finalize

Spec == Init /\ [][Next]_vars

(***************************************************************************)
(* Properties of the energy functions (SpecEnergy)                         *)
(***************************************************************************)

\* C1: for every lattice and every site (i, j), calc_energy of the lattice
\* with the spin at (i, j) negated minus calc_energy of the lattice before
\* equals the delta_E mc_step computes for that flip.
DeltaEnergyConsistency ==
    probe.done =>
        /\ probe.before.err = ""
        /\ probe.after.err = ""
        /\ probe.after.E - probe.before.E = probe.delta

\* the four periodic neighbours of (i, j) on a lattice of side N
PeriodicNeighbours(i, j, N) ==
    {<<(i - 1) % N, j>>, <<(i + 1) % N, j>>, <<i, (j - 1) % N>>, <<i, (j + 1) % N>>}

\* C2: for every site (i, j) of a lattice of side N, the neighbour coordinates
\* calc_energy and mc_step derive from neigh are exactly ((i-1) mod N, j),
\* ((i+1) mod N, j), (i, (j-1) mod N), (i, (j+1) mod N), all within [0, N).
NeighboursPeriodic ==
    probe.done =>
        LET N    == len(grid)
            want == PeriodicNeighbours(probe.i, probe.j, N)
        IN  /\ {probe.energy_nb[k] : k \in 1 .. 4} = want
            /\ {probe.step_nb[k] : k \in 1 .. 4} = want
            /\ \A c \in want : c[1] \in 0 .. N - 1 /\ c[2] \in 0 .. N - 1

(***************************************************************************)
(* Properties of the elementary step of mc_step (SpecStep)                 *)
(***************************************************************************)

\* C3: an elementary step either negates the proposed cell (i, j) and leaves
\* every other cell unchanged (acceptance), or leaves the whole lattice
\* unchanged (rejection); the dimensions of the lattice do not change.
StepFrame ==
    [][it' = it + 1 =>
          /\ DOMAIN grid' = DOMAIN grid
          /\ \A a \in DOMAIN grid : DOMAIN grid'[a] = DOMAIN grid[a]
          /\ <<step'.i, step'.j>> \in Sites(len(grid))
          /\ \A s \in Sites(len(grid)) :
                grid'[s[1]][s[2]] =
                    IF step'.accepted /\ s = <<step'.i, step'.j>>
                    THEN 0 - grid[s[1]][s[2]]
                    ELSE grid[s[1]][s[2]]]_vars

\* C3 witness: a rejected step on a 2x2 lattice in which an earlier step was
\* accepted (only a flip gives a spin +1)
StepFrameWitness ==
    /\ step.done
    /\ ~step.accepted
    /\ len(grid) = 2
    /\ \E s \in Sites(2) : grid[s[1]][s[2]] = 1

\* C4: if delta_E < 0 the flip is applied and no random number is drawn;
\* otherwise one uniform u is drawn and the flip is applied iff
\* u < exp(-delta_E / T); with inv_T = 0 the site is always flipped.
AcceptanceRule ==
    step.done =>
        LET p == exp(<<(0 - step.delta_E) * inv_T[1], HDen * inv_T[2]>>)
        IN  /\ step.delta_E < 0 => step.accepted /\ ~step.drew
            /\ step.delta_E >= 0 =>
                  /\ step.drew
                  /\ step.u \in 0 .. UDen - 1
                  /\ step.accepted <=> step.u * p[2] < UDen * p[1]
            /\ inv_T[1] = 0 => step.accepted

\* C4 witness: a move that raises the energy, rejected on its draw
AcceptanceRuleWitness ==
    /\ step.done
    /\ step.delta_E > 0
    /\ step.drew
    /\ ~step.accepted

\* C5: in every lattice reached from init(n) by elementary steps every spin
\* lies in [-1, 1], and the magnetization mu satisfies |mu| <= N^2.
MagnetizationBound ==
    LET N  == len(grid)
        mu == calc_magnetization(grid)
    IN  /\ \A s \in Sites(N) : grid[s[1]][s[2]] >= 0 - 1 /\ grid[s[1]][s[2]] <= 1
        /\ mu >= 0 - N * N
        /\ mu <= N * N

\* C5 witness: an accepted flip after which the bound is attained, mu = N^2
MagnetizationBoundWitness ==
    /\ step.done
    /\ step.accepted
    /\ calc_magnetization(grid) = len(grid) * len(grid)

\* C10: np.exp is evaluated only when delta_E >= 0, on an argument that is
\* never positive; a step with delta_E < 0 is accepted without evaluating
\* the exponential and without drawing a random number.
OverflowGuard ==
    step.done =>
        /\ step.evaluated =>
              /\ step.delta_E >= 0
              /\ step.exp_arg[2] > 0
              /\ step.exp_arg[1] <= 0
        /\ step.delta_E < 0 => step.accepted /\ ~step.evaluated /\ ~step.drew

\* C10 witness: a move that lowers the energy, accepted outright
OverflowGuardWitness ==
    /\ step.done
    /\ step.delta_E < 0
    /\ step.accepted
    /\ ~step.evaluated

(***************************************************************************)
(* Properties of mc_metropolis (Spec)                                      *)
(***************************************************************************)

\* the counts of sweeps and measurements at each position of mc_metropolis
PhaseCounts ==
    /\ pc = "equilibrate" =>
          samples = 0 /\ sweeps = t /\ t <= n_steps_eq + nsteps_mc
    /\ pc = "sample" =>
          /\ sweeps = n_steps_eq + nsteps_mc + t
          /\ samples = t
          /\ t <= nsteps_mc
    /\ pc = "measure" =>
          /\ sweeps = n_steps_eq + nsteps_mc + t + 1
          /\ samples = t
          /\ t < nsteps_mc
          /\ last = "sweep"
    /\ outcome = "returned" =>
          sweeps = n_steps_eq + 2 * nsteps_mc /\ samples = nsteps_mc

\* a measurement is taken right after a sweep, on the lattice that sweep left
MeasuresAfterSweep ==
    samples' # samples =>
        /\ samples' = samples + 1
        /\ pc = "measure"
        /\ last = "sweep"
        /\ sweeps = n_steps_eq + nsteps_mc + samples'
        /\ grid' = grid
        /\ acc'.mu_avg = acc.mu_avg + calc_magnetization(grid)
        /\ acc'.E_avg = acc.E_avg + calc_energy(grid).E

ZeroFieldGuard ==
    H = 0 =>
        /\ sweeps = 0
        /\ samples = 0
        /\ outcome \in {"", "InvalidField"}
        /\ pc = "done" => outcome = "InvalidField"
        /\ result = <<>>
        /\ pc # "call" => acc.chi_avg.kind = "fin" /\ acc.chi_avg2.kind = "fin"

\* C8: with nsteps_mc = 0 the call never returns the six statistics: it ends
\* in an exception, raised by the normalization of line 281 when the call
\* gets that far.
ZeroSamplesFail ==
    nsteps_mc = 0 =>
        /\ result = <<>>
        /\ outcome \in {"", "ZeroDivisionError"}
        /\ pc = "done" => outcome = "ZeroDivisionError"

\* C8 witness: a run on a non-empty lattice that made its equilibration
\* sweeps and then failed in the normalization
ZeroSamplesFailWitness ==
    /\ nsteps_mc = 0
    /\ n > 0
    /\ n_steps_eq > 0
    /\ sweeps = n_steps_eq
    /\ pc = "done"
    /\ outcome = "ZeroDivisionError"

\* C9: on every lattice mc_metropolis hands to calc_energy, each neighbour
\* index calc_energy uses is (i + offset) mod len(grid), so no read falls
\* outside the lattice and none depends on a size other than the lattice's.
EnergyWrapsByOwnSide ==
    /\ outcome # "IndexError"
    /\ pc = "measure" =>
          \A s \in Sites(len(grid)), k \in 1 .. 4 :
              EnergyNeighbour(s[1], s[2], k) =
                  <<(neigh[1][k] + s[1]) % len(grid), (neigh[2][k] + s[2]) % len(grid)>>

====
